---- MODULE Spec2Model ----
(***************************************************************************)
(* Model of catasto_regione.py: a batch script that walks the .zip files   *)
(* of a root directory, extracts *_ple.gml / *_map.gml files from the      *)
(* archives nested in each of them, merges them per kind into geometry     *)
(* tables, writes one intermediate GeoPackage per province code, then      *)
(* concatenates the intermediates into one final GeoPackage and removes    *)
(* the intermediates.                                                      *)
(*                                                                         *)
(* Strings are sequences of one-character strings, so that endswith,       *)
(* splitext, slicing, split and upper are modelled by what they compute.   *)
(* The directory listing and the members of each archive are read as the   *)
(* script reads them: one entry per loop iteration.                        *)
(***************************************************************************)
EXTENDS Integers, Sequences, FiniteSets, TLC

\* ------------------------------------------------------------------ bounds
MaxArchives == 2   \* entries os.listdir yields for the root directory
MaxNested   == 2   \* members namelist() yields for one top-level archive
MaxEntries  == 2   \* entries namelist() yields, in all, for the nested archives of one archive
MaxFiles    == 2   \* records handed to merge_gml when it is checked alone
MaxRows     == 2   \* features of one GML file when merge_gml is checked alone

\* ----------------------------------------------------------------- strings
LowerCase == <<"a","b","c","d","e","f","g","h","i","j","k","l","m",
               "n","o","p","q","r","s","t","u","v","w","x","y","z">>
UpperCase == <<"A","B","C","D","E","F","G","H","I","J","K","L","M",
               "N","O","P","Q","R","S","T","U","V","W","X","Y","Z">>

UpperChar(c) ==
    IF \E i \in 1..26 : LowerCase[i] = c
    THEN UpperCase[CHOOSE i \in 1..26 : LowerCase[i] = c]
    ELSE c

\* str.upper()
Upper(s) == [i \in 1..Len(s) |-> UpperChar(s[i])]

\* s[:n]
Take(s, n) == SubSeq(s, 1, IF Len(s) < n THEN Len(s) ELSE n)

\* str.endswith(suffix)
EndsWith(s, suffix) ==
    /\ Len(s) >= Len(suffix)
    /\ SubSeq(s, Len(s) - Len(suffix) + 1, Len(s)) = suffix

\* str.rstrip("/")
RECURSIVE RStripSlash(_)
RStripSlash(s) ==
    IF s # <<>> /\ s[Len(s)] = "/" THEN RStripSlash(SubSeq(s, 1, Len(s) - 1)) ELSE s

\* os.path.basename(p): what follows the last "/"
Basename(p) ==
    LET slashes == {i \in 1..Len(p) : p[i] = "/"}
        last    == IF slashes = {} THEN 0
                   ELSE CHOOSE i \in slashes : \A j \in slashes : j <= i
    IN  SubSeq(p, last + 1, Len(p))

\* os.path.splitext(name)[0] for a name without directory separators: the
\* name is cut at its last dot unless only dots precede that dot.
SplitextRoot(name) ==
    LET dots == {i \in 1..Len(name) : name[i] = "."}
        dotIndex == IF dots = {} THEN 0
                    ELSE CHOOSE i \in dots : \A j \in dots : j <= i
    IN  IF dotIndex > 0 /\ \E k \in 1..(dotIndex - 1) : name[k] # "."
        THEN SubSeq(name, 1, dotIndex - 1)
        ELSE name

\* filename.split("_")
RECURSIVE SplitUnderscore(_)
SplitUnderscore(s) ==
    LET seps == {i \in 1..Len(s) : s[i] = "_"}
    IN  IF seps = {} THEN <<s>>
        ELSE LET first == CHOOSE i \in seps : \A j \in seps : i <= j
             IN  <<SubSeq(s, 1, first - 1)>> \o SplitUnderscore(SubSeq(s, first + 1, Len(s)))

DotZip  == <<".","z","i","p">>
DotGpkg == <<".","g","p","k","g">>
PleSuffix == <<"_","p","l","e",".","g","m","l">>
MapSuffix == <<"_","m","a","p",".","g","m","l">>

\* ------------------------------------------------------------- input pools
\* Root directories the user may enter (an existing directory, possibly with
\* trailing slashes).
RootDirs == { <<"/","d","/","A","/">> }

\* Names os.listdir may yield for the root directory.
DirNames == { <<"V","E","_","1">> \o DotZip,
              <<"v","e","2">> \o DotZip,
              <<"a">> \o DotZip,
              DotZip,
              <<"n",".","t","x","t">> }

\* Names of the members of a top-level archive.
MemberNames == { <<"F","2">> \o DotZip, <<"i",".","p","d","f">> }

\* Names of the entries of a nested archive.
EntryNames == { <<"x","_","A">> \o PleSuffix,
                <<"x","_","A">> \o MapSuffix,
                <<"r",".","t","x","t">> }

\* Geometries as the geometry engine classifies them.
GeomKinds == {"null", "valid", "invalid_ok", "invalid_err"}

\* What gpd.read_file finds in a GML file: the file does not parse
\* (loads = FALSE) or it holds the listed features.
Unloadable == [loads |-> FALSE, geoms |-> <<>>]
Gml(geoms) == [loads |-> TRUE, geoms |-> geoms]

\* File contents used in whole-run exploration.
GmlPool == { Unloadable, Gml(<<"invalid_ok", "null", "valid">>) }

SeqsUpTo(S, lo, hi) == UNION { [1..n -> S] : n \in lo..hi }

\* File contents used when merge_gml is explored alone.
GmlAll == { Unloadable } \cup { Gml(g) : g \in SeqsUpTo(GeomKinds, 1, MaxRows) }

IsGmlName(n) == EndsWith(n, PleSuffix) \/ EndsWith(n, MapSuffix)

\* ---------------------------------------------------------------- tables
\* An optional table: None, or a table with its rows in order.
None == [some |-> FALSE, rows |-> <<>>]
Table(rows) == [some |-> TRUE, rows |-> rows]

RECURSIVE Concat(_)
\* pd.concat(tables, ignore_index=True): the rows of the tables, in order
Concat(tables) ==
    IF tables = <<>> THEN <<>> ELSE Head(tables).rows \o Concat(Tail(tables))

\* gpd.read_file(f) on a loadable GML file: one row per feature
ReadGml(content) ==
    [i \in 1..Len(content.geoms) |-> [fid |-> i, geometry |-> content.geoms[i]]]

\* geom.buffer(0) of an invalid geometry the engine can repair
Buffer0(geom) == "repaired"

\* fix_geometry without its except clause taking effect: a geometry whose
\* repair fails is handed back as it is.
fix_geometry_keeps_failed(geom) ==
    CASE geom = "null"        -> "null"
      [] geom = "valid"       -> geom
      [] geom = "invalid_ok"  -> Buffer0(geom)
      [] OTHER                -> geom

fix_geometry(geom) ==
    CASE geom = "null"        -> "null"
      [] geom = "valid"       -> geom
      [] geom = "invalid_ok"  -> Buffer0(geom)
      [] geom = "invalid_err" -> "null"
      [] OTHER                -> geom

\* gdf[gdf["geometry"].notnull()]
NotNull(rows) == SelectSeq(rows, LAMBDA r : r.geometry # "null")

\* filename.split("_")[1] if "_" in filename else filename
ComuneOf(filename) ==
    IF \E i \in 1..Len(filename) : filename[i] = "_"
    THEN SplitUnderscore(filename)[2]
    ELSE filename

\* The body of the try block of merge_gml for one record that loads.
MergeOne(content, filename, provincia) ==
    LET gdf   == ReadGml(content)
        fixed == [i \in 1..Len(gdf) |->
                    [gdf[i] EXCEPT !.geometry = fix_geometry(gdf[i].geometry)]]
        kept  == NotNull(fixed)
    IN  [i \in 1..Len(kept) |->
            [fid |-> kept[i].fid, geometry |-> kept[i].geometry,
             comune |-> ComuneOf(filename), provincia |-> Upper(provincia)]]

\* Whether gpd.read_file(f) succeeds on the file system fs.
Loads(fs, f) == f \in DOMAIN fs /\ fs[f].loads

RECURSIVE MergeLoop(_, _)
\* The for loop of merge_gml: the list gdfs it builds.
MergeLoop(files, fs) ==
    IF files = <<>> THEN <<>>
    ELSE LET r == Head(files)
         IN  (IF Loads(fs, r.path)
              THEN <<Table(MergeOne(fs[r.path], r.filename, r.provincia))>>
              ELSE <<>>)
             \o MergeLoop(Tail(files), fs)

\* What merge_gml returns for the list gdfs.
MergeResult(gdfs) == IF gdfs # <<>> THEN Table(Concat(gdfs)) ELSE None

merge_gml(files, fs) ==
    IF files = <<>> THEN None ELSE MergeResult(MergeLoop(files, fs))

\* ------------------------------------------------------------- extraction
Record(path, filename, provincia) ==
    [path |-> path, filename |-> filename, provincia |-> provincia]

\* nested_zip.extract(nested_file, temp_dir): the path written
ExtractPath(temp, nested_file) == <<temp, nested_file>>

\* nested_zip.extract writes the entry at its path, over whatever is there.
WriteFile(fs, path, content) ==
    [p \in DOMAIN fs \cup {path} |-> IF p = path THEN content ELSE fs[p]]

\* ------------------------------------------------------------ file system
Join(dir, name) == dir \o <<"/">> \o name

NoLayers == [ple_layer |-> None, map_layer |-> None]

\* table.to_file(path, layer=layer, driver="GPKG"): creates the package if
\* needed and (re)writes that layer, leaving the package's other layer alone.
to_file(fs, path, layer, table) ==
    [p \in DOMAIN fs \cup {path} |->
        IF p = path
        THEN [(IF path \in DOMAIN fs THEN fs[path] ELSE NoLayers) EXCEPT ![layer] = table]
        ELSE fs[p]]

\* Whether gpd.read_file(path, layer=layer) succeeds.
HasLayer(fs, path, layer) == path \in DOMAIN fs /\ fs[path][layer].some

\* os.remove(path) on an existing file
Remove(fs, path) == [p \in DOMAIN fs \ {path} |-> fs[p]]

\* tempfile.TemporaryDirectory(): a directory that does not exist yet
NewTempDir(dirs) == CHOOSE d \in 1..(Cardinality(dirs) + 1) : d \notin dirs

\* A scratch directory made with mkdtemp and never removed.
ExitTempDir_leak(dirs, d) == dirs

\* TemporaryDirectory.__exit__: the directory is removed however the block ends
ExitTempDir(dirs, d) == dirs \ {d}

\* The slice taken one character too long.
ProvinciaOf_three(zip_file_name) == Upper(Take(SplitextRoot(zip_file_name), 3))

\* provincia = os.path.splitext(zip_file_name)[0][:2].upper()
ProvinciaOf(zip_file_name) == Upper(Take(SplitextRoot(zip_file_name), 2))

\* The emptiness test with its second operand inverted.
NoGmlFound_inverted(gml) == gml.ple = <<>> /\ gml.map # <<>>

\* if not all_gml_files["ple"] and not all_gml_files["map"]
NoGmlFound(gml) == gml.ple = <<>> /\ gml.map = <<>>

NoFiles == [ple |-> <<>>, map |-> <<>>]

\* ------------------------------------------------------------------ state
VARIABLES
    pc,                \* where the script is
    exc,               \* the uncaught exception that ended the run, or "none"
    root_directory,    \* line 35
    final_gpkg,        \* line 39
    idx,               \* entries of the listing consumed by the loop of line 105
    seen,              \* the names os.listdir has yielded
    zip_file_name,     \* line 105
    provincia,         \* line 110
    tmpdirs,           \* scratch directories that exist
    temp_dir,          \* line 115 (0: none)
    scratch,           \* files under the scratch directory: path -> content
    nMembers,          \* members consumed by the loop of line 51
    nEntries,          \* entries consumed by the loop of line 56, over this archive
    all_gml_files,     \* line 116: [ple, map], lists of records
    entry_of,          \* for each record, the content of the entry it was made for
    matched,           \* entries of this archive with a _ple.gml or _map.gml name
    gpkg_files,        \* line 102
    disk,              \* packages in the root directory: path -> layers
    ple_layer,         \* lines 131, 150
    map_layer,         \* lines 132, 156
    final_ple_layers,  \* line 145
    final_map_layers,  \* line 146
    k,                 \* paths consumed by the loops of lines 148 and 171
    produced           \* per archive whose block ended normally: what it produced

vars == <<pc, exc, root_directory, final_gpkg, idx, seen, zip_file_name,
          provincia, tmpdirs, temp_dir, scratch, nMembers, nEntries, all_gml_files, entry_of,
          matched, gpkg_files, disk, ple_layer, map_layer, final_ple_layers,
          final_map_layers, k, produced>>

rootVars   == <<root_directory, final_gpkg>>
regionVars == <<zip_file_name, provincia, temp_dir, nMembers, nEntries, all_gml_files,
                entry_of, matched>>
finalVars  == <<final_ple_layers, final_map_layers, k>>

EmptyFs == [p \in {} |-> None]

\* Lines 27-39: the root directory is read, stripped of trailing slashes, and
\* names the final package.
InitRoot(dir) ==
    /\ root_directory = RStripSlash(dir)
    /\ final_gpkg = Join(RStripSlash(dir), Basename(RStripSlash(dir)) \o DotGpkg)

Init ==
    /\ \E dir \in RootDirs : InitRoot(dir)
    /\ pc = "loop"
    /\ exc = "none"
    /\ idx = 0
    /\ seen = {}
    /\ zip_file_name = <<>>
    /\ provincia = <<>>
    /\ tmpdirs = {}
    /\ temp_dir = 0
    /\ scratch = EmptyFs
    /\ nMembers = 0
    /\ nEntries = 0
    /\ all_gml_files = NoFiles
    /\ entry_of = NoFiles
    /\ matched = 0
    /\ gpkg_files = <<>>
    /\ disk = EmptyFs
    /\ ple_layer = None
    /\ map_layer = None
    /\ final_ple_layers = <<>>
    /\ final_map_layers = <<>>
    /\ k = 0
    /\ produced = <<>>

\* Lines 105-106: a directory entry that does not end in .zip is passed over.
SkipNonArchive ==
    /\ pc = "loop"
    /\ idx < MaxArchives
    /\ \E name \in DirNames \ seen :
        /\ ~EndsWith(name, DotZip)
        /\ seen' = seen \cup {name}
    /\ idx' = idx + 1
    /\ UNCHANGED <<pc, exc, rootVars, regionVars, tmpdirs, scratch, gpkg_files, disk,
                   ple_layer, map_layer, finalVars, produced>>

\* Lines 105-116: the next archive is named, its provincia derived, and its
\* scratch directory created.
StartRegion ==
    /\ pc = "loop"
    /\ idx < MaxArchives
    /\ \E name \in DirNames \ seen :
        /\ EndsWith(name, DotZip)
        /\ seen' = seen \cup {name}
        /\ zip_file_name' = name
        /\ provincia' = ProvinciaOf(name)
    /\ temp_dir' = NewTempDir(tmpdirs)
    /\ tmpdirs' = tmpdirs \cup {temp_dir'}
    /\ scratch' = EmptyFs
    /\ nMembers' = 0
    /\ nEntries' = 0
    /\ all_gml_files' = NoFiles
    /\ entry_of' = NoFiles
    /\ matched' = 0
    /\ pc' = "open"
    /\ UNCHANGED <<exc, rootVars, idx, gpkg_files, disk, ple_layer, map_layer,
                   finalVars, produced>>

\* The with block of line 115 ends: the scratch directory and its files are
\* removed.  The counters kept for the archive start again.
EndRegion ==
    /\ tmpdirs' = ExitTempDir(tmpdirs, temp_dir)
    /\ scratch' = EmptyFs
    /\ nMembers' = 0
    /\ nEntries' = 0
    /\ matched' = 0
    /\ entry_of' = NoFiles

\* An exception leaves the with block of line 115 and nothing catches it.
RaiseInRegion(e) ==
    /\ EndRegion
    /\ exc' = e
    /\ pc' = "exit"

\* Line 50: zipfile.ZipFile(zip_path) opens the archive or raises BadZipFile.
OpenArchive ==
    /\ pc = "open"
    /\ \E readable \in BOOLEAN :
        IF readable
        THEN /\ pc' = "members"
             /\ UNCHANGED <<exc, tmpdirs, scratch, nMembers, nEntries, matched, entry_of>>
        ELSE RaiseInRegion("BadZipFile")
    /\ UNCHANGED <<rootVars, idx, seen, zip_file_name, provincia, temp_dir,
                   all_gml_files, gpkg_files, disk, ple_layer, map_layer, finalVars,
                   produced>>

\* Lines 51-55: the next member of the top-level archive.  A member whose
\* name does not end in .zip is ignored; a nested archive that cannot be
\* opened raises BadZipFile; otherwise its entries are scanned.
NextMember ==
    /\ pc = "members"
    /\ nMembers < MaxNested
    /\ \E file_name \in MemberNames, wellFormed \in BOOLEAN :
        IF ~EndsWith(file_name, DotZip)
        THEN /\ nMembers' = nMembers + 1
             /\ UNCHANGED <<pc, exc, tmpdirs, scratch, nEntries, matched, entry_of>>
        ELSE IF ~wellFormed
        THEN RaiseInRegion("BadZipFile")
        ELSE /\ nMembers' = nMembers + 1
             /\ pc' = "entries"
             /\ UNCHANGED <<exc, tmpdirs, scratch, nEntries, matched, entry_of>>
    /\ UNCHANGED <<rootVars, idx, seen, zip_file_name, provincia, temp_dir,
                   all_gml_files, gpkg_files, disk, ple_layer, map_layer, finalVars,
                   produced>>

\* Lines 56-62: one entry of the nested archive.  An entry with one of the
\* two suffixes is extracted to the scratch directory and recorded.
ExtractEntry ==
    /\ pc = "entries"
    /\ nEntries < MaxEntries
    /\ \E nested_file \in EntryNames, content \in GmlPool :
        LET extracted_path == ExtractPath(temp_dir, nested_file)
            rec == Record(extracted_path, nested_file, provincia)
        IN  IF EndsWith(nested_file, PleSuffix)
            THEN /\ scratch' = WriteFile(scratch, extracted_path, content)
                 /\ all_gml_files' = [all_gml_files EXCEPT !.ple = Append(@, rec)]
                 /\ entry_of' = [entry_of EXCEPT !.ple = Append(@, content)]
                 /\ matched' = matched + 1
            ELSE IF EndsWith(nested_file, MapSuffix)
            THEN /\ scratch' = WriteFile(scratch, extracted_path, content)
                 /\ all_gml_files' = [all_gml_files EXCEPT !.map = Append(@, rec)]
                 /\ entry_of' = [entry_of EXCEPT !.map = Append(@, content)]
                 /\ matched' = matched + 1
            ELSE UNCHANGED <<scratch, all_gml_files, entry_of, matched>>
    /\ nEntries' = nEntries + 1
    /\ UNCHANGED <<pc, exc, rootVars, idx, seen, zip_file_name, provincia, tmpdirs,
                   temp_dir, nMembers, gpkg_files, disk, ple_layer, map_layer,
                   finalVars, produced>>

\* Line 56: the entries of the nested archive are exhausted.
CloseMember ==
    /\ pc = "entries"
    /\ pc' = "members"
    /\ UNCHANGED <<exc, rootVars, idx, seen, regionVars, tmpdirs, scratch, gpkg_files,
                   disk, ple_layer, map_layer, finalVars, produced>>

\* Lines 64, 118-124: the archive yielded no GML file; the block is left with
\* continue.
SkipRegion ==
    /\ pc = "members"
    /\ NoGmlFound(all_gml_files)
    /\ idx' = idx + 1
    /\ pc' = "loop"
    /\ produced' = Append(produced, [skipped |-> TRUE, ple_layer |-> 0, map_layer |-> 0])
    /\ EndRegion
    /\ UNCHANGED <<exc, rootVars, seen, zip_file_name, provincia, temp_dir,
                   all_gml_files, gpkg_files, disk, ple_layer, map_layer, finalVars>>

\* os.path.join(root_directory, f"{provincia}.gpkg")
OutputGpkg(root, prov) == Join(root, prov \o DotGpkg)

\* Lines 134-140: each merged table that is not None is written as its layer.
WriteLayers(fs, path, ple, map) ==
    LET fs1 == IF ple.some THEN to_file(fs, path, "ple_layer", ple) ELSE fs
    IN  IF map.some THEN to_file(fs1, path, "map_layer", map) ELSE fs1

\* Lines 64, 118-140: the package path is recorded, both kinds are merged and
\* written, and the block ends.
MergeAndWrite ==
    /\ pc = "members"
    /\ ~NoGmlFound(all_gml_files)
    /\ LET output_gpkg == OutputGpkg(root_directory, provincia)
           ple == merge_gml(all_gml_files.ple, scratch)
           map == merge_gml(all_gml_files.map, scratch)
       IN  /\ gpkg_files' = Append(gpkg_files, output_gpkg)
           /\ ple_layer' = ple
           /\ map_layer' = map
           /\ disk' = WriteLayers(disk, output_gpkg, ple, map)
           /\ produced' = Append(produced, [skipped |-> FALSE, ple_layer |-> Len(ple.rows),
                                            map_layer |-> Len(map.rows)])
    /\ idx' = idx + 1
    /\ pc' = "loop"
    /\ EndRegion
    /\ UNCHANGED <<exc, rootVars, seen, zip_file_name, provincia, temp_dir,
                   all_gml_files, finalVars>>

RECURSIVE ReadBack(_, _, _)
\* The loop of lines 148-159 over the recorded paths: acc holds ple_layer,
\* map_layer and the two lists.  A layer that cannot be read is reported and
\* passed over.
ReadBack(paths, fs, acc) ==
    IF paths = <<>> THEN acc
    ELSE LET gpkg == Head(paths)
             a1 == IF HasLayer(fs, gpkg, "ple_layer")
                   THEN [acc EXCEPT !.ple_layer = fs[gpkg]["ple_layer"],
                                    !.final_ple = Append(@, fs[gpkg]["ple_layer"])]
                   ELSE acc
             a2 == IF HasLayer(fs, gpkg, "map_layer")
                   THEN [a1 EXCEPT !.map_layer = fs[gpkg]["map_layer"],
                                   !.final_map = Append(@, fs[gpkg]["map_layer"])]
                   ELSE a1
         IN  ReadBack(Tail(paths), fs, a2)

\* Lines 143-159: the listing is exhausted; every recorded package is read
\* back.
Consolidate ==
    /\ pc = "loop"
    /\ LET acc == ReadBack(gpkg_files, disk,
                      [ple_layer |-> ple_layer, map_layer |-> map_layer,
                       final_ple |-> <<>>, final_map |-> <<>>])
       IN  /\ ple_layer' = acc.ple_layer
           /\ map_layer' = acc.map_layer
           /\ final_ple_layers' = acc.final_ple
           /\ final_map_layers' = acc.final_map
    /\ pc' = "consolidate"
    /\ UNCHANGED <<exc, rootVars, idx, seen, regionVars, tmpdirs, scratch, gpkg_files,
                   disk, k, produced>>

\* Lines 161-169: each layer with something read back is concatenated and
\* written to the final package.
WriteFinal ==
    /\ pc = "consolidate"
    /\ disk' = WriteLayers(disk, final_gpkg,
                  IF final_ple_layers # <<>> THEN Table(Concat(final_ple_layers)) ELSE None,
                  IF final_map_layers # <<>> THEN Table(Concat(final_map_layers)) ELSE None)
    /\ k' = 0
    /\ pc' = "cleanup"
    /\ UNCHANGED <<exc, rootVars, idx, seen, regionVars, tmpdirs, scratch, gpkg_files,
                   ple_layer, map_layer, final_ple_layers, final_map_layers, produced>>

\* Lines 171-173: os.remove of one recorded path; a path that is not on disk
\* raises FileNotFoundError, which nothing catches.
RemoveIntermediate ==
    /\ pc = "cleanup"
    /\ k < Len(gpkg_files)
    /\ LET gpkg == gpkg_files[k + 1]
       IN  IF gpkg \in DOMAIN disk
           THEN /\ disk' = Remove(disk, gpkg)
                /\ k' = k + 1
                /\ UNCHANGED <<pc, exc>>
           ELSE /\ exc' = "FileNotFoundError"
                /\ pc' = "exit"
                /\ UNCHANGED <<disk, k>>
    /\ UNCHANGED <<rootVars, idx, seen, regionVars, tmpdirs, scratch, gpkg_files,
                   ple_layer, map_layer, final_ple_layers, final_map_layers, produced>>

\* Line 175: the success message.
Finish ==
    /\ pc = "cleanup"
    /\ k = Len(gpkg_files)
    /\ pc' = "done"
    /\ UNCHANGED <<exc, rootVars, idx, seen, regionVars, tmpdirs, scratch, gpkg_files,
                   disk, ple_layer, map_layer, finalVars, produced>>

Next ==
    \/ SkipNonArchive
    \/ StartRegion
    \/ OpenArchive
    \/ NextMember
    \/ ExtractEntry
    \/ CloseMember
    \/ SkipRegion
    \/ MergeAndWrite
    \/ Consolidate
    \/ WriteFinal
    \/ RemoveIntermediate
    \/ Finish

Spec == Init /\ [][Next]_vars

\* ------------------------------------------------------- merge_gml alone
\* The i-th file handed to merge_gml: x_<letter>_ple.gml in scratch directory 1.
MergeFileName(i) == <<"x", "_", UpperCase[i]>> \o PleSuffix
MergeFilePath(i) == ExtractPath(1, MergeFileName(i))

\* The script at line 131 with any list of extracted ple records whose files
\* hold any contents.
InitMerge ==
    /\ \E dir \in RootDirs : InitRoot(dir)
    /\ \E contents \in SeqsUpTo(GmlAll, 0, MaxFiles) :
        /\ all_gml_files =
              [ple |-> [i \in 1..Len(contents) |->
                          Record(MergeFilePath(i), MergeFileName(i), <<"v", "e">>)],
               map |-> <<>>]
        /\ entry_of = [ple |-> contents, map |-> <<>>]
        /\ scratch = [p \in {MergeFilePath(i) : i \in 1..Len(contents)} |->
                        contents[CHOOSE i \in 1..Len(contents) : MergeFilePath(i) = p]]
        /\ matched = Len(contents)
    /\ pc = "merge_call"
    /\ exc = "none"
    /\ idx = 0
    /\ seen = {}
    /\ zip_file_name = <<>>
    /\ provincia = <<"V", "E">>
    /\ tmpdirs = {1}
    /\ temp_dir = 1
    /\ nMembers = 0
    /\ nEntries = 0
    /\ gpkg_files = <<>>
    /\ disk = EmptyFs
    /\ ple_layer = None
    /\ map_layer = None
    /\ final_ple_layers = <<>>
    /\ final_map_layers = <<>>
    /\ k = 0
    /\ produced = <<>>

\* Line 131: ple_layer = merge_gml(all_gml_files["ple"])
MergeOnly ==
    /\ pc = "merge_call"
    /\ ple_layer' = merge_gml(all_gml_files.ple, scratch)
    /\ pc' = "merge_return"
    /\ UNCHANGED <<exc, rootVars, idx, seen, regionVars, tmpdirs, scratch, gpkg_files,
                   disk, map_layer, finalVars, produced>>

NextMerge == MergeOnly

SpecMerge == InitMerge /\ [][NextMerge]_vars

\* ================================================================ claims
InRegion == pc \in {"open", "members", "entries"}

\* The last archive whose block ended normally was merged and written, and
\* nothing has run since but the listing loop.
JustWritten ==
    /\ pc = "loop"
    /\ produced # <<>>
    /\ ~produced[Len(produced)].skipped

MergedRows == ple_layer.rows \o map_layer.rows

\* ---------------------------------------------------------------------- C1
\* C1: an archive that cannot be opened (top-level or nested) never ends the
\* run: no BadZipFile leaves the region loop uncaught.
C1_BadArchiveNeverAborts == exc # "BadZipFile"

\* ---------------------------------------------------------------------- C2
\* C2: a deletion that fails during the cleanup of the intermediates is not
\* fatal: no FileNotFoundError ends the run before the success message.
C2_FailedDeletionNotFatal == exc # "FileNotFoundError"

\* ---------------------------------------------------------------------- C3
RECURSIVE SumProduced(_, _)
SumProduced(hist, layer) ==
    IF hist = <<>> THEN 0 ELSE Head(hist)[layer] + SumProduced(Tail(hist), layer)

\* The rows of a layer of the final package (none when the layer is absent).
FinalRows(layer) ==
    IF HasLayer(disk, final_gpkg, layer) THEN Len(disk[final_gpkg][layer].rows) ELSE 0

\* C3: once the final package is written, each of its layers has as many rows
\* as the merges of all processed archives produced for that layer.
C3_FinalRowCountIsSum ==
    (pc = "cleanup" /\ k = 0) =>
        /\ FinalRows("ple_layer") = SumProduced(produced, "ple_layer")
        /\ FinalRows("map_layer") = SumProduced(produced, "map_layer")

\* ---------------------------------------------------------------------- C4
\* C4: while an archive is being processed exactly its own scratch directory
\* exists, and outside that (after a merge, a skip or an error) none exists;
\* never do two exist at once.
C4_ScratchDirScoped ==
    /\ Cardinality(tmpdirs) <= 1
    /\ InRegion => tmpdirs = {temp_dir}
    /\ ~InRegion => tmpdirs = {} /\ scratch = EmptyFs

\* An archive was skipped and a later one merged and written; each had its
\* scratch directory and none is left.
C4_Witness ==
    /\ pc = "loop"
    /\ Len(produced) = 2
    /\ produced[1].skipped
    /\ ~produced[2].skipped
    /\ temp_dir # 0
    /\ tmpdirs = {}

\* ---------------------------------------------------------------------- C5
\* The filename without its .zip ending.
WithoutZip(name) == SubSeq(name, 1, Len(name) - Len(DotZip))

\* The code the rows of an archive are expected to carry: the first two
\* characters of what precedes .zip, upper-cased; when only dots (or nothing)
\* precede .zip, splitext strips no extension and the code comes from the
\* whole name.
ExpectedCode(name) ==
    IF \E i \in 1..Len(WithoutZip(name)) : WithoutZip(name)[i] # "."
    THEN Upper(Take(WithoutZip(name), 2))
    ELSE Upper(Take(name, 2))

\* Every row on disk has a comune and an upper-case provincia, and while only
\* intermediate packages exist each row carries the code its package is named by.
WrittenRowsMatchPackage ==
    \A p \in DOMAIN disk : \A layer \in {"ple_layer", "map_layer"} :
        \A i \in 1..Len(disk[p][layer].rows) :
            LET row == disk[p][layer].rows[i]
            IN  /\ row.comune # <<>>
                /\ row.provincia # <<>>
                /\ row.provincia = Upper(row.provincia)
                /\ pc = "loop" => OutputGpkg(root_directory, row.provincia) = p

\* C5 (as claimed): every merged row has a comune, and a provincia that is
\* upper-case, two characters long and equal to the first two characters of
\* the archive's filename stem (the name without .zip), upper-cased.
C5_ProvinciaIsTwoLetterCode ==
    JustWritten =>
        \A i \in 1..Len(MergedRows) :
            /\ MergedRows[i].comune # <<>>
            /\ MergedRows[i].provincia = Upper(MergedRows[i].provincia)
            /\ Len(MergedRows[i].provincia) = 2
            /\ MergedRows[i].provincia = Upper(Take(WithoutZip(zip_file_name), 2))

\* C5 (amended): every merged row, and every row on disk, has a comune and an
\* upper-case provincia; the provincia is the upper-cased first two characters
\* of the stem os.path.splitext gives, so it has one character when one
\* character precedes .zip and two otherwise.
C5_ProvinciaFromStem ==
    /\ WrittenRowsMatchPackage
    /\ JustWritten =>
        \A i \in 1..Len(MergedRows) :
            /\ MergedRows[i].comune # <<>>
            /\ MergedRows[i].provincia = Upper(MergedRows[i].provincia)
            /\ MergedRows[i].provincia = ExpectedCode(zip_file_name)
            /\ Len(MergedRows[i].provincia) =
                 (IF Len(WithoutZip(zip_file_name)) = 1
                     /\ WithoutZip(zip_file_name) # <<".">> THEN 1 ELSE 2)

\* An archive with a one-character stem was merged into rows and written.
C5_Witness ==
    /\ JustWritten
    /\ Len(WithoutZip(zip_file_name)) = 1
    /\ MergedRows # <<>>
    /\ OutputGpkg(root_directory, provincia) \in DOMAIN disk

\* ---------------------------------------------------------------------- C6
\* C6: when the block of an archive whose nested archives held no entry
\* ending in _ple.gml or _map.gml ends, no package path has been recorded,
\* nothing has been written, neither merge has run (both layer variables are
\* as they were), the archive is counted as skipped, and the loop goes on to
\* the next directory entry.
C6_EmptyArchiveSkipped ==
    [][ (pc = "members" /\ matched = 0 /\ pc' = "loop") =>
            /\ gpkg_files' = gpkg_files
            /\ disk' = disk
            /\ ple_layer' = ple_layer
            /\ map_layer' = map_layer
            /\ exc' = "none"
            /\ idx' = idx + 1
            /\ Len(produced') = Len(produced) + 1
            /\ produced'[Len(produced')].skipped ]_vars

\* An archive with members but no matching entry was skipped after an
\* earlier archive was written, and the run completed.
C6_Witness ==
    /\ pc = "done"
    /\ Len(produced) = 2
    /\ ~produced[1].skipped
    /\ produced[2].skipped
    /\ Len(gpkg_files) = 1

\* ---------------------------------------------------------------------- C7
\* Whether a file content yields at least one row after the repair step.
YieldsRow(content) ==
    /\ content.loads
    /\ \E i \in 1..Len(content.geoms) : content.geoms[i] \in {"valid", "invalid_ok"}

\* C7: merge_gml returns None exactly when no input file yielded a valid row
\* (empty list, every file failed to load, or every loaded file lost all its
\* rows to the geometry filter).
C7_NoneIffNoValidRow ==
    pc = "merge_return" =>
        (ple_layer = None <=>
            \A i \in 1..Len(entry_of.ple) : ~YieldsRow(entry_of.ple[i]))

\* ---------------------------------------------------------------------- C8
\* What the repair step is to leave of one feature list: null geometries and
\* geometries whose repair fails are gone, valid ones are as they were,
\* repairable ones are their zero-distance buffer; order is kept.
RECURSIVE Survivors(_, _)
Survivors(geoms, n) ==
    IF geoms = <<>> THEN <<>>
    ELSE LET g == Head(geoms)
             rest == Survivors(Tail(geoms), n + 1)
         IN  IF g = "valid" THEN <<[fid |-> n, geometry |-> g]>> \o rest
             ELSE IF g = "invalid_ok" THEN <<[fid |-> n, geometry |-> Buffer0(g)]>> \o rest
             ELSE rest

RECURSIVE AllSurvivors(_)
AllSurvivors(contents) ==
    IF contents = <<>> THEN <<>>
    ELSE (IF Head(contents).loads THEN Survivors(Head(contents).geoms, 1) ELSE <<>>)
         \o AllSurvivors(Tail(contents))

\* C8: the merged table holds no null geometry, and its rows are, in input
\* order, exactly the features whose geometry was valid (unchanged) or
\* repairable (replaced by its buffer); features with a null geometry or a
\* failed repair are absent.
C8_RepairKeepsInvariant ==
    pc = "merge_return" =>
        /\ \A i \in 1..Len(ple_layer.rows) : ple_layer.rows[i].geometry # "null"
        /\ [i \in 1..Len(ple_layer.rows) |->
               [fid |-> ple_layer.rows[i].fid, geometry |-> ple_layer.rows[i].geometry]]
           = AllSurvivors(entry_of.ple)

\* A merge of two files in which all four kinds of geometry occurred and
\* rows of both files survived.
C8_Witness ==
    /\ pc = "merge_return"
    /\ Len(entry_of.ple) = 2
    /\ \A g \in GeomKinds : \E f \in 1..2 : \E i \in 1..Len(entry_of.ple[f].geoms) :
          entry_of.ple[f].geoms[i] = g
    /\ \E i, j \in 1..Len(ple_layer.rows) :
          ple_layer.rows[i].comune # ple_layer.rows[j].comune

\* ---------------------------------------------------------------------- C9
\* C9: when the success message follows the writing of at least one final
\* layer, the final package is on disk and its path is none of the recorded
\* intermediate paths.
C9_FinalPackageSurvives ==
    (pc = "done" /\ (final_ple_layers # <<>> \/ final_map_layers # <<>>)) =>
        /\ final_gpkg \in DOMAIN disk
        /\ \A i \in 1..Len(gpkg_files) : gpkg_files[i] # final_gpkg

\* --------------------------------------------------------------------- C10
\* C10: during extraction every record refers to a scratch file holding the
\* content of the nested entry the record was made for.
C10_RecordsKeepTheirEntry ==
    pc \in {"members", "entries"} =>
        \A kind \in {"ple", "map"} : \A i \in 1..Len(all_gml_files[kind]) :
            /\ all_gml_files[kind][i].path \in DOMAIN scratch
            /\ scratch[all_gml_files[kind][i].path] = entry_of[kind][i]

====
